---- MODULE Spec2Model ----
(***************************************************************************)
(* Coreference resolution: the rule-based sieve resolver (coref_rules.py), *)
(* the feature extractors (coref_features.py) and the learned pairwise     *)
(* scorer with its training and evaluation loops (neural_net.py).          *)
(*                                                                         *)
(* Python lists indexed from 0 are functions over 0..n-1; token strings    *)
(* (the `string` and `tags` of a markable) are TLA+ sequences.  Floats are *)
(* integers: every claim checked here is about order, maxima and signs.    *)
(***************************************************************************)
EXTENDS Integers, Sequences, FiniteSets, TLC

VARIABLES sieve, feat, scorer, train, eval

vars == <<sieve, feat, scorer, train, eval>>

(***************************************************************************)
(* Bounds of the model.                                                    *)
(***************************************************************************)
\* longest document given to the sieve resolver
MaxMarks == 4
\* largest token stride between the starts of consecutive markables
MaxStride == 3
\* longest document given to the feature extractors
MaxFeatMarks == 7
\* longest document given to the scorer
MaxScorerMarks == 4
\* longest document of a training set
MaxTrainMarks == 3
\* longest document of an evaluation set
MaxEvalMarks == 3

(***************************************************************************)
(* Python helpers.                                                         *)
(***************************************************************************)
Range(n) == 0 .. (n - 1)

PyLen(list) == Cardinality(DOMAIN list)

EmptyList == [k \in Range(0) |-> 0]

Min(x, y) == IF x <= y THEN x ELSE y

Max(x, y) == IF x >= y THEN x ELSE y

Abs(x) == IF x < 0 THEN -x ELSE x

\* str.lower() on the tokens that occur in the documents of the model
Lower(tok) ==
    CASE tok = "The" -> "the"
      [] tok = "Dog" -> "dog"
      [] tok = "It" -> "it"
      [] OTHER -> tok

\* downcase_list = lambda toks: [tok.lower() for tok in toks]
downcase_list(toks) == [k \in 1 .. Len(toks) |-> Lower(toks[k])]

RECURSIVE JoinFrom(_, _)
JoinFrom(toks, k) ==
    IF k > Len(toks) THEN "" ELSE toks[k] \o JoinFrom(toks, k + 1)

\* "".join(toks)
Join(toks) == JoinFrom(toks, 1)

pronouns ==
    { "i", "me", "mine", "you", "your", "yours", "she", "her", "hers",
      "he", "him", "his", "it", "its", "they", "them", "their", "theirs",
      "this", "those", "these", "that", "we", "our", "us", "ours" }

(***************************************************************************)
(* Markables and documents.  A markable carries string, tags, start_token, *)
(* end_token and the gold entity; its span is words[start_token:end_token] *)
(* (the slice AttentionBasedMarkableEmbedding.forward takes).  A document  *)
(* is a list of markables sorted by start_token.                           *)
(***************************************************************************)
\* how the mention strings follow one another in a document
Patterns == {0, 1, 2}

ShapeString(s) ==
    CASE s = 0 -> <<"the", "dog">>
      [] s = 1 -> <<"it">>
      [] OTHER -> <<"Dog">>

ShapeTags(s) ==
    CASE s = 0 -> <<"DT", "NN">>
      [] s = 1 -> <<"PRP">>
      [] OTHER -> <<"NN">>

Markable(s, start, ent) ==
    [ string |-> ShapeString(s),
      tags |-> ShapeTags(s),
      start_token |-> start,
      end_token |-> start + Len(ShapeString(s)),
      entity |-> ent ]

\* The document of n markables whose k-th markable starts at token
\* k * stride, has the shape (k * pat) % 3 and the entity ents[k].
Document(n, stride, pat, ents) ==
    [k \in Range(n) |-> Markable((k * pat) % 3, k * stride, ents[k])]

NoEntities(n) == [k \in Range(n) |-> 0]

(***************************************************************************)
(* coref_rules.py: the pairwise matchers.                                  *)
(***************************************************************************)
exact_match(m_a, m_i) == downcase_list(m_a.string) = downcase_list(m_i.string)

singleton_matcher(m_a, m_i) ==
    m_a.start_token = m_i.start_token /\ m_a.end_token = m_i.end_token

full_cluster_matcher(m_a, m_i) == TRUE

exact_match_no_pronouns(m_a, m_i) ==
    /\ downcase_list(m_a.string) = downcase_list(m_i.string)
    /\ ~(Lower(Join(m_a.string)) \in pronouns)

match_last_token(m_a, m_i) ==
    Lower(m_a.string[Len(m_a.string)]) = Lower(m_i.string[Len(m_i.string)])

match_no_overlap(m_a, m_i) ==
    /\ ~(m_i.start_token <= m_a.start_token /\ m_a.start_token <= m_i.end_token)
    /\ ~(m_a.start_token <= m_i.start_token /\ m_i.start_token <= m_a.end_token)

match_last_token_no_overlap(m_a, m_i) ==
    match_last_token(m_a, m_i) /\ match_no_overlap(m_a, m_i)

ALLOWED_TAGS ==
    {"CD", "NN", "NNS", "NNP", "NNPS", "PRP", "PRP$", "JJ", "JJR", "JJS"}

\* [token for i, token in enumerate(m.string) if m.tags[i] in ALLOWED_TAGS]
ContentTokens(m) ==
    SelectSeq([k \in 1 .. Len(m.string) |-> <<m.string[k], m.tags[k]>>],
              LAMBDA p : p[2] \in ALLOWED_TAGS)

match_on_content(m_a, m_i) ==
    /\ ~(m_i.start_token <= m_a.start_token /\ m_a.start_token <= m_i.end_token)
    /\ ~(m_a.start_token <= m_i.start_token /\ m_i.start_token <= m_a.end_token)
    /\ LET fa == ContentTokens(m_a)
           fi == ContentTokens(m_i)
       IN  [k \in 1 .. Len(fa) |-> Lower(fa[k][1])]
             = [k \in 1 .. Len(fi) |-> Lower(fi[k][1])]

Matchers ==
    { "exact_match", "singleton_matcher", "full_cluster_matcher",
      "exact_match_no_pronouns", "match_last_token", "match_no_overlap",
      "match_last_token_no_overlap", "match_on_content" }

\* the call matcher(m_a, m_i) of the pairwise matcher named `matcher`
Matches(matcher, m_a, m_i) ==
    CASE matcher = "exact_match" -> exact_match(m_a, m_i)
      [] matcher = "singleton_matcher" -> singleton_matcher(m_a, m_i)
      [] matcher = "full_cluster_matcher" -> full_cluster_matcher(m_a, m_i)
      [] matcher = "exact_match_no_pronouns" -> exact_match_no_pronouns(m_a, m_i)
      [] matcher = "match_last_token" -> match_last_token(m_a, m_i)
      [] matcher = "match_no_overlap" -> match_no_overlap(m_a, m_i)
      [] matcher = "match_last_token_no_overlap" ->
             match_last_token_no_overlap(m_a, m_i)
      [] OTHER -> match_on_content(m_a, m_i)

(***************************************************************************)
(* coref_rules.py: most_recent_match and make_resolver.                    *)
(***************************************************************************)
\* A resolver that keeps the first compatible antecedent it meets.
FirstMatchBody(antecedents, i, a, hit) ==
    IF hit /\ antecedents[i] = i
    THEN [antecedents EXCEPT ![i] = a]
    ELSE antecedents

\* if matcher(m_a, m_i): antecedents[i] = a
MatchBody(antecedents, i, a, hit) ==
    IF hit THEN [antecedents EXCEPT ![i] = a] ELSE antecedents

SieveIdle == [pc |-> "idle"]

FeatIdle == [pc |-> "idle"]

ScorerIdle == [pc |-> "idle"]

TrainIdle == [pc |-> "idle"]

EvalIdle == [pc |-> "idle"]

\* make_resolver(pairwise_matcher) applied to a document: the call
\* most_recent_match(markables, pairwise_matcher) is about to run.
InitSieve ==
    /\ \E n \in 0 .. MaxMarks, stride \in 0 .. MaxStride,
          pat \in Patterns, m \in Matchers :
          sieve = [ pc |-> "call",
                    markables |-> Document(n, stride, pat, NoEntities(n)),
                    matcher |-> m,
                    antecedents |-> EmptyList,
                    i |-> 0,
                    a |-> 0 ]
    /\ feat = FeatIdle
    /\ scorer = ScorerIdle
    /\ train = TrainIdle
    /\ eval = EvalIdle

\* antecedents = list(range(len(markables)))
SieveCall ==
    /\ sieve.pc = "call"
    /\ sieve' = [sieve EXCEPT !.pc = "scan",
                              !.antecedents =
                                  [k \in Range(PyLen(sieve.markables)) |-> k],
                              !.i = 0,
                              !.a = 0]
    /\ UNCHANGED <<feat, scorer, train, eval>>

\* one iteration of the inner loop over markables[:i]
SieveScan ==
    /\ sieve.pc = "scan"
    /\ sieve.i < PyLen(sieve.markables)
    /\ sieve.a < sieve.i
    /\ sieve' = [sieve EXCEPT
                    !.antecedents =
                        MatchBody(sieve.antecedents, sieve.i, sieve.a,
                                  Matches(sieve.matcher,
                                          sieve.markables[sieve.a],
                                          sieve.markables[sieve.i])),
                    !.a = sieve.a + 1]
    /\ UNCHANGED <<feat, scorer, train, eval>>

\* the inner loop is exhausted: the outer loop takes the next mention
SieveNextMention ==
    /\ sieve.pc = "scan"
    /\ sieve.i < PyLen(sieve.markables)
    /\ sieve.a >= sieve.i
    /\ sieve' = [sieve EXCEPT !.i = sieve.i + 1, !.a = 0]
    /\ UNCHANGED <<feat, scorer, train, eval>>

\* return antecedents
SieveReturn ==
    /\ sieve.pc = "scan"
    /\ sieve.i >= PyLen(sieve.markables)
    /\ sieve' = [sieve EXCEPT !.pc = "done"]
    /\ UNCHANGED <<feat, scorer, train, eval>>

NextSieve == SieveCall \/ SieveScan \/ SieveNextMention \/ SieveReturn

SpecSieve == InitSieve /\ [][NextSieve]_vars

(***************************************************************************)
(* C1.  When most_recent_match returns, the assignment has one entry per   *)
(* markable; antecedents[i] <= i; antecedents[i] = i exactly when no       *)
(* a < i matches markable i; and otherwise antecedents[i] is the highest   *)
(* a < i that matches, so an earlier match a1 < a2 never wins over a2.     *)
(***************************************************************************)
SieveMatch(a, i) == Matches(sieve.matcher, sieve.markables[a], sieve.markables[i])

C1_MostRecentMatch ==
    sieve.pc = "done" =>
        /\ DOMAIN sieve.antecedents = DOMAIN sieve.markables
        /\ \A i \in DOMAIN sieve.markables :
              LET ant == sieve.antecedents[i]
              IN  /\ ant \in 0 .. i
                  /\ (ant = i) <=> ~(\E a \in Range(i) : SieveMatch(a, i))
                  /\ ant < i => SieveMatch(ant, i)
                  /\ \A a \in Range(i) : SieveMatch(a, i) => a <= ant

\* a mention with two compatible antecedents a1 < a2 < i, and a mismatch too
C1_Witness ==
    /\ sieve.pc = "done"
    /\ \E i \in DOMAIN sieve.markables :
          \E a1, a2 \in Range(i) :
             /\ a1 < a2
             /\ SieveMatch(a1, i) /\ SieveMatch(a2, i)
             /\ sieve.antecedents[i] = a2
             /\ \E b \in Range(i) : ~SieveMatch(b, i)

(***************************************************************************)
(* coref_features.py.  A feature dict (defaultdict(float)) is the list of  *)
(* its <<key, value>> items in insertion order, the order .items() gives. *)
(***************************************************************************)
EmptyDict == << >>

DictKeys(f) == {f[k][1] : k \in 1 .. Len(f)}

\* f[key] = value: a present key keeps its place, a new key is appended
DictSet(f, key, value) ==
    IF key \in DictKeys(f)
    THEN [k \in 1 .. Len(f) |-> IF f[k][1] = key THEN <<key, value>> ELSE f[k]]
    ELSE Append(f, <<key, value>>)

DictSetIf(f, cond, key, value) == IF cond THEN DictSet(f, key, value) ELSE f

RECURSIVE DictUpdateFrom(_, _, _)
DictUpdateFrom(f, g, k) ==
    IF k > Len(g) THEN f
    ELSE DictUpdateFrom(DictSet(f, g[k][1], g[k][2]), g, k + 1)

\* f.update(g)
DictUpdate(f, g) == DictUpdateFrom(f, g, 1)

\* "mention-distance-{}".format(mention_dist)
MentionDistanceKey(mention_dist) == "mention-distance-" \o ToString(mention_dist)

\* "token-distance-{}".format(token_dist)
TokenDistanceKey(token_dist) == "token-distance-" \o ToString(token_dist)

\* the default ceilings of distance_features
max_mention_distance_default == 5

max_token_distance_default == 10

\* m_a.start_token <= m_i.start_token <= m_a.end_token or the converse
Crossover(m_a, m_i) ==
    \/ (m_a.start_token <= m_i.start_token /\ m_i.start_token <= m_a.end_token)
    \/ (m_i.start_token <= m_a.start_token /\ m_a.start_token <= m_i.end_token)

\* minimal_features whose else branch also runs for the self candidate
minimal_features_no_else(markables, a, i) ==
    LET m_a == markables[a]
        m_i == markables[i]
        f0 == DictSetIf(EmptyDict, a = i, "new-entity", 1)
        f1 == DictSetIf(f0, exact_match(m_a, m_i), "exact-match", 1)
        f2 == DictSetIf(f1, match_last_token(m_a, m_i), "last-token-match", 1)
        f3 == DictSetIf(f2, match_on_content(m_a, m_i), "content-match", 1)
    IN  DictSetIf(f3, Crossover(m_a, m_i), "crossover", 1)

minimal_features(markables, a, i) ==
    LET m_a == markables[a]
        m_i == markables[i]
    IN  IF a = i
        THEN DictSet(EmptyDict, "new-entity", 1)
        ELSE LET f1 == DictSetIf(EmptyDict, exact_match(m_a, m_i),
                                 "exact-match", 1)
                 f2 == DictSetIf(f1, match_last_token(m_a, m_i),
                                 "last-token-match", 1)
                 f3 == DictSetIf(f2, match_on_content(m_a, m_i),
                                 "content-match", 1)
             IN  DictSetIf(f3, Crossover(m_a, m_i), "crossover", 1)

\* distance_features that does not clip the mention distance at its ceiling
distance_features_unclipped(x, a, i, max_mention_distance, max_token_distance) ==
    IF a = i THEN EmptyDict
    ELSE LET mention_dist == Abs(i - a)
             token_dist == Min(Abs(x[i].start_token - x[a].end_token),
                               max_token_distance)
             f1 == DictSetIf(EmptyDict, mention_dist > 0,
                             MentionDistanceKey(mention_dist), 1)
         IN  DictSetIf(f1, token_dist > 0, TokenDistanceKey(token_dist), 1)

distance_features(x, a, i, max_mention_distance, max_token_distance) ==
    IF a = i THEN EmptyDict
    ELSE LET mention_dist == Min(Abs(i - a), max_mention_distance)
             token_dist == Min(Abs(x[i].start_token - x[a].end_token),
                               max_token_distance)
             f1 == DictSetIf(EmptyDict, mention_dist > 0,
                             MentionDistanceKey(mention_dist), 1)
         IN  DictSetIf(f1, token_dist > 0, TokenDistanceKey(token_dist), 1)

\* feat_func(x, a, i) for a feature function given by name; distance_features
\* called with three arguments takes its default ceilings
FeatFunc(feat_func, x, a, i) ==
    IF feat_func = "minimal_features"
    THEN minimal_features(x, a, i)
    ELSE distance_features(x, a, i, max_mention_distance_default,
                           max_token_distance_default)

RECURSIVE UnionFrom(_, _, _, _, _, _)
UnionFrom(feat_func_list, k, f, x, a, i) ==
    IF k > Len(feat_func_list) THEN f
    ELSE UnionFrom(feat_func_list, k + 1,
                   DictUpdate(f, FeatFunc(feat_func_list[k], x, a, i)), x, a, i)

\* make_feature_union(feat_func_list)(x, a, i)
union_func(feat_func_list, x, a, i) ==
    UnionFrom(feat_func_list, 1, EmptyDict, x, a, i)

\* the feature function of the learned resolver
UnionList == <<"minimal_features", "distance_features">>

MentionCeilings == {2, max_mention_distance_default}

TokenCeilings == {3, max_token_distance_default}

\* a feature function is about to be called on (x, a, i)
InitFeat ==
    /\ \E n \in 1 .. MaxFeatMarks, stride \in 0 .. MaxStride,
          pat \in Patterns :
          \E a \in Range(n), i \in Range(n),
             mmd \in MentionCeilings, mtd \in TokenCeilings :
             feat = [ pc |-> "ready",
                      x |-> Document(n, stride, pat, NoEntities(n)),
                      a |-> a,
                      i |-> i,
                      max_mention_distance |-> mmd,
                      max_token_distance |-> mtd,
                      call |-> "none",
                      f |-> EmptyDict ]
    /\ sieve = SieveIdle
    /\ scorer = ScorerIdle
    /\ train = TrainIdle
    /\ eval = EvalIdle

CallMinimalFeatures ==
    /\ feat.pc = "ready"
    /\ feat' = [feat EXCEPT !.pc = "done",
                            !.call = "minimal_features",
                            !.f = minimal_features(feat.x, feat.a, feat.i)]
    /\ UNCHANGED <<sieve, scorer, train, eval>>

CallDistanceFeatures ==
    /\ feat.pc = "ready"
    /\ feat' = [feat EXCEPT !.pc = "done",
                            !.call = "distance_features",
                            !.f = distance_features(feat.x, feat.a, feat.i,
                                                    feat.max_mention_distance,
                                                    feat.max_token_distance)]
    /\ UNCHANGED <<sieve, scorer, train, eval>>

CallFeatureUnion ==
    /\ feat.pc = "ready"
    /\ feat' = [feat EXCEPT !.pc = "done",
                            !.call = "union_func",
                            !.f = union_func(UnionList, feat.x, feat.a, feat.i)]
    /\ UNCHANGED <<sieve, scorer, train, eval>>

NextFeat == CallMinimalFeatures \/ CallDistanceFeatures \/ CallFeatureUnion

SpecFeat == InitFeat /\ [][NextFeat]_vars

(***************************************************************************)
(* C6.  For a # i distance_features returns exactly the key                *)
(* mention-distance-k, k = min(|i - a|, max_mention_distance), and, iff    *)
(* k' = min(|start_token[i] - end_token[a]|, max_token_distance) > 0, the  *)
(* key token-distance-k', each once and with value 1; with the ceiling 5   *)
(* every mention distance >= 5 yields mention-distance-5; the keys lie in  *)
(* mention-distance-1..ceiling and token-distance-1..ceiling.              *)
(***************************************************************************)
C6_DistanceSaturates ==
    (feat.pc = "done" /\ feat.call = "distance_features" /\ feat.a # feat.i) =>
        LET k == Min(Abs(feat.i - feat.a), feat.max_mention_distance)
            tok == Abs(feat.x[feat.i].start_token - feat.x[feat.a].end_token)
            k2 == Min(tok, feat.max_token_distance)
        IN  /\ DictKeys(feat.f) =
                  {MentionDistanceKey(k)}
                     \cup (IF k2 > 0 THEN {TokenDistanceKey(k2)} ELSE {})
            /\ Len(feat.f) = Cardinality(DictKeys(feat.f))
            /\ \A j \in 1 .. Len(feat.f) : feat.f[j][2] = 1
            /\ (feat.max_mention_distance = 5 /\ Abs(feat.i - feat.a) >= 5)
                  => "mention-distance-5" \in DictKeys(feat.f)
            /\ (feat.max_token_distance = 10 /\ tok >= 10)
                  => "token-distance-10" \in DictKeys(feat.f)
            /\ DictKeys(feat.f) \subseteq
                  {MentionDistanceKey(d) : d \in 1 .. feat.max_mention_distance}
                     \cup {TokenDistanceKey(d) : d \in 1 .. feat.max_token_distance}

\* a mention distance of 6 under the ceiling 5, a token distance above 10
C6_Witness ==
    /\ feat.pc = "done" /\ feat.call = "distance_features"
    /\ feat.max_mention_distance = 5 /\ feat.max_token_distance = 10
    /\ feat.i - feat.a = 6
    /\ feat.x[feat.i].start_token - feat.x[feat.a].end_token > 10
    /\ DictKeys(feat.f) = {"mention-distance-5", "token-distance-10"}

(***************************************************************************)
(* C7.  For the self candidate (a = i) minimal_features returns exactly    *)
(* {"new-entity": 1}, distance_features returns the empty dict whatever    *)
(* the ceilings, and the union of the two returns exactly                  *)
(* {"new-entity": 1}.                                                      *)
(***************************************************************************)
C7_SelfCandidate ==
    (feat.pc = "done" /\ feat.a = feat.i) =>
        /\ feat.call = "minimal_features" => feat.f = << <<"new-entity", 1>> >>
        /\ feat.call = "distance_features" => feat.f = << >>
        /\ feat.call = "union_func" => feat.f = << <<"new-entity", 1>> >>

\* the union called on (markables, i, i) for a mention that is not the first
C7_Witness ==
    /\ feat.pc = "done" /\ feat.call = "union_func"
    /\ feat.a = feat.i /\ feat.i > 0
    /\ feat.f = << <<"new-entity", 1>> >>

(***************************************************************************)
(* neural_net.py: the embedding producers.  Embeddings are integers; the   *)
(* LSTM is a pair of recurrences over the document, one in each direction, *)
(* and the attention a weighted mean over words[start_token:end_token].    *)
(***************************************************************************)
Entities == {0, 1}

\* token strides of the documents that carry their words: no two markables
\* overlap
Strides == {2, 3}

\* the parameter settings the learned components range over
Params == {0, 1, 2}

\* gold entity labels of a document of n markables, the first one labelled 0
EntityLabels(n) == {ents \in [Range(n) -> Entities] : n > 0 => ents[0] = 0}

\* the words of a document: the strings of its markables at their spans,
\* "." elsewhere and as the last word
Words(markables) ==
    LET n == PyLen(markables)
        last == IF n = 0 THEN 0 ELSE markables[n - 1].end_token
    IN  [p \in Range(last + 1) |->
            IF \E k \in Range(n) :
                  markables[k].start_token <= p /\ p < markables[k].end_token
            THEN LET k == CHOOSE k \in Range(n) :
                              /\ markables[k].start_token <= p
                              /\ p < markables[k].end_token
                 IN  markables[k].string[p - markables[k].start_token + 1]
            ELSE "."]

word_to_ix(word) ==
    CASE word = "the" -> 1
      [] word = "dog" -> 2
      [] word = "it" -> 3
      [] word = "Dog" -> 4
      [] OTHER -> 0

\* the result of a call: err is "none" or the exception it raised
Ok(v) == [err |-> "none", val |-> v]

Raise(e) == [err |-> e, val |-> 0]

\* the two directions of the bidirectional LSTM, each started from the
\* cleared hidden state: one runs over the words up to t, the other over
\* the words from t on
RECURSIVE LstmForward(_, _)
LstmForward(document, t) ==
    IF t < 0 THEN 0
    ELSE (word_to_ix(document[t]) + 2 * LstmForward(document, t - 1)) % 5

RECURSIVE LstmBackward(_, _)
LstmBackward(document, t) ==
    IF t >= PyLen(document) THEN 0
    ELSE (word_to_ix(document[t]) + 3 * LstmBackward(document, t + 1)) % 5

\* the output of the LSTM at word t combines both directions
LstmOutput(document, t) ==
    (LstmForward(document, t) + 3 * LstmBackward(document, t)) % 5

\* BiLSTMWordEmbedding.forward(document): one embedding per word;
\* torch.cat of an empty list raises
doc_lstm_model(document) ==
    IF PyLen(document) = 0 THEN Raise("RuntimeError")
    ELSE Ok([t \in Range(PyLen(document)) |-> LstmOutput(document, t)])

RECURSIVE SumSpan(_, _, _)
SumSpan(values, from, to) ==
    IF from >= to THEN 0
    ELSE values[from] + SumSpan(values, from + 1, to)

\* the unnormalised softmax weight of an embedding of the span
AttnWeight(e) == e + 1

\* AttentionBasedMarkableEmbedding.forward(embeddings, markable): the
\* softmax-weighted mean of embeddings[start_token:end_token]; torch.cat of
\* an empty span raises
attn_model(embeddings, markable) ==
    LET from == Min(markable.start_token, PyLen(embeddings))
        to == Min(markable.end_token, PyLen(embeddings))
        weighted == [t \in DOMAIN embeddings |->
                        AttnWeight(embeddings[t]) * embeddings[t]]
        weights == [t \in DOMAIN embeddings |-> AttnWeight(embeddings[t])]
    IN  IF from >= to THEN Raise("RuntimeError")
        ELSE Ok(SumSpan(weighted, from, to) \div SumSpan(weights, from, to))

\* [attn_model(base_embs, m) for m in marks]
AttEmbs(base_embs, marks) ==
    LET r == [k \in Range(PyLen(marks)) |-> attn_model(base_embs, marks[k])]
    IN  IF \E k \in DOMAIN r : r[k].err # "none" THEN Raise("RuntimeError")
        ELSE Ok([k \in DOMAIN r |-> r[k].val])

\* base_embs = doc_lstm_model(words), then the embedding of every markable
DocEmbs(words, marks) ==
    LET base_embs == doc_lstm_model(words)
    IN  IF base_embs.err # "none" THEN Raise(base_embs.err)
        ELSE AttEmbs(base_embs.val, marks)

(***************************************************************************)
(* neural_net.py: SequentialScorer.                                        *)
(***************************************************************************)
MinimalNames ==
    <<"new-entity", "exact-match", "last-token-match", "content-match",
      "crossover">>

\* feat_set lists: every key the union extractor can emit, and the keys of
\* minimal_features alone
FullFeatSet ==
    [k \in Range(5 + max_mention_distance_default + max_token_distance_default)
       |-> IF k < 5 THEN MinimalNames[k + 1]
           ELSE IF k < 5 + max_mention_distance_default
                THEN MentionDistanceKey(k - 4)
                ELSE TokenDistanceKey(k - 4 - max_mention_distance_default)]

MinimalFeatSet == [k \in Range(5) |-> MinimalNames[k + 1]]

FeatNames(feat_set) == {feat_set[k] : k \in DOMAIN feat_set}

\* self.feat_to_idx[feat], for feat a key of the dict
feat_to_idx(feat_set, name) ==
    CHOOSE k \in DOMAIN feat_set :
        /\ feat_set[k] = name
        /\ \A j \in DOMAIN feat_set : feat_set[j] = name => j <= k

\* the learned embeddings and weights under parameter setting theta
feat_off_embs(theta, k) == (((theta + 1) * (k + 1)) % 3) - 1

feat_on_embs(theta, k) == ((theta + 2) * (k + 2)) % 4

SlotValue(theta, slot) ==
    IF slot[1] = "on" THEN feat_on_embs(theta, slot[2])
    ELSE feat_off_embs(theta, slot[2])

RECURSIVE BlockSum(_, _, _)
BlockSum(theta, feature_emb, k) ==
    IF k >= PyLen(feature_emb) THEN 0
    ELSE (((k + theta) % 3) - 1) * SlotValue(theta, feature_emb[k])
            + BlockSum(theta, feature_emb, k + 1)

ReLU(x) == Max(0, x)

\* self.net(input): Linear -> ReLU -> Linear on cat(emb_i, emb_a, feature_emb)
net(theta, emb_i, emb_a, feature_emb) ==
    LET pre == emb_i + (theta - 1) * emb_a + BlockSum(theta, feature_emb, 0)
                  - theta
    IN  ReLU(pre) + (IF theta % 2 = 0 THEN -1 ELSE 2) * ReLU(2 - pre) + theta

\* the loop `for i, feat in enumerate(pos_feats)` from position j on: the
\* right-hand side feat_on_embs(j) is evaluated before the subscript
\* feat_to_idx[feat]
RECURSIVE OverwriteFrom(_, _, _, _)
OverwriteFrom(feat_set, feature_emb, pos_feats, j) ==
    IF j >= Len(pos_feats) THEN Ok(feature_emb)
    ELSE IF j >= PyLen(feat_set) THEN Raise("IndexError")
    ELSE IF pos_feats[j + 1] \notin FeatNames(feat_set) THEN Raise("KeyError")
    ELSE OverwriteFrom(feat_set,
                       [feature_emb EXCEPT
                           ![feat_to_idx(feat_set, pos_feats[j + 1])] =
                               <<"on", j>>],
                       pos_feats, j + 1)

\* the feature-embedding block of forward: slot k holds <<"off", k>> or the
\* <<"on", j>> embedding written over it
FeatureEmb(feat_set, pos_feats) ==
    OverwriteFrom(feat_set, [k \in Range(PyLen(feat_set)) |-> <<"off", k>>],
                  pos_feats, 0)

\* SequentialScorer.forward(emb_i, emb_a, pos_feats)
forward(feat_set, theta, emb_i, emb_a, pos_feats) ==
    LET feature_emb == FeatureEmb(feat_set, pos_feats)
    IN  IF feature_emb.err # "none" THEN Raise(feature_emb.err)
        ELSE Ok(net(theta, emb_i, emb_a, feature_emb.val))

\* feats(markables, a, i) for the feature function built from feats
Feats(feats, markables, a, i) == union_func(feats, markables, a, i)

\* [k for k, v in feats(markables, a, i).items() if v > 0]
get_pos_feats(feats, markables, a, i) ==
    LET pos == SelectSeq(Feats(feats, markables, a, i), LAMBDA kv : kv[2] > 0)
    IN  [j \in 1 .. Len(pos) |-> pos[j][1]]

\* score_instance looping over all of markables instead of markables[:i + 1]
score_instance_all(feat_set, theta, doc_embs, markables, i, feats) ==
    LET cands == Range(PyLen(markables))
        sc == [a \in cands |->
                 IF i \in DOMAIN doc_embs /\ a \in DOMAIN doc_embs
                 THEN forward(feat_set, theta, doc_embs[i], doc_embs[a],
                              get_pos_feats(feats, markables, a, i))
                 ELSE Raise("IndexError")]
    IN  IF \E a \in cands : sc[a].err # "none"
        THEN Raise(sc[CHOOSE a \in cands :
                          /\ sc[a].err # "none"
                          /\ \A b \in cands : sc[b].err # "none" => a <= b].err)
        ELSE Ok([a \in cands |-> sc[a].val])

\* SequentialScorer.score_instance(doc_embs, markables, i, feats): the
\* scores of the candidates markables[:i + 1], or the first exception
score_instance(feat_set, theta, doc_embs, markables, i, feats) ==
    LET cands == Range(Min(i + 1, PyLen(markables)))
        sc == [a \in cands |->
                 IF i \in DOMAIN doc_embs /\ a \in DOMAIN doc_embs
                 THEN forward(feat_set, theta, doc_embs[i], doc_embs[a],
                              get_pos_feats(feats, markables, a, i))
                 ELSE Raise("IndexError")]
    IN  IF \E a \in cands : sc[a].err # "none"
        THEN Raise(sc[CHOOSE a \in cands :
                          /\ sc[a].err # "none"
                          /\ \A b \in cands : sc[b].err # "none" => a <= b].err)
        ELSE Ok([a \in cands |-> sc[a].val])

\* torch.max over the scores at the given indices
TorchMax(scores, indices) ==
    CHOOSE v \in {scores[k] : k \in indices} :
        \A k \in indices : scores[k] <= v

\* what instance_top_scores returns: none is TRUE for (None, None)
TopNone == [err |-> "none", none |-> TRUE, trues_max |-> 0, false_max |-> 0]

TopRaise(e) == [err |-> e, none |-> FALSE, trues_max |-> 0, false_max |-> 0]

Top(t, f) == [err |-> "none", none |-> FALSE, trues_max |-> t, false_max |-> f]

\* [index for index in range(0, i) if markables[index].entity == (or !=)
\*  markables[true_antecedent].entity]
all_trues_indices(markables, i, true_antecedent) ==
    {index \in Range(i) :
        markables[index].entity = markables[true_antecedent].entity}

all_false_indices(markables, i, true_antecedent) ==
    {index \in Range(i) :
        markables[index].entity # markables[true_antecedent].entity}

\* instance_top_scores without the early return for i == true_antecedent
instance_top_scores_no_self_check(feat_set, theta, doc_embs, markables, i, true_antecedent, feats) ==
    IF i = 0 THEN TopNone
    ELSE LET scores == score_instance(feat_set, theta, doc_embs, markables, i,
                                      feats)
             trues == all_trues_indices(markables, i, true_antecedent)
             falses == all_false_indices(markables, i, true_antecedent)
         IN  IF scores.err # "none" THEN TopRaise(scores.err)
             ELSE IF Cardinality(trues) = i THEN TopNone
             ELSE IF trues = {} THEN TopRaise("RuntimeError")
             ELSE Top(TorchMax(scores.val, trues), TorchMax(scores.val, falses))

\* instance_top_scores taking the maxima over the candidates 0..i, the self
\* candidate among the false ones
instance_top_scores_with_self(feat_set, theta, doc_embs, markables, i, true_antecedent, feats) ==
    IF i = 0 \/ i = true_antecedent THEN TopNone
    ELSE LET scores == score_instance(feat_set, theta, doc_embs, markables, i,
                                      feats)
             trues == all_trues_indices(markables, i, true_antecedent)
             falses == all_false_indices(markables, i, true_antecedent)
         IN  IF scores.err # "none" THEN TopRaise(scores.err)
             ELSE IF Cardinality(trues) = i THEN TopNone
             ELSE IF trues = {} THEN TopRaise("RuntimeError")
             ELSE Top(TorchMax(scores.val, trues),
                      TorchMax(scores.val, falses \cup {i}))

\* SequentialScorer.instance_top_scores(doc_embs, markables, i,
\*                                      true_antecedent, feats)
instance_top_scores(feat_set, theta, doc_embs, markables, i, true_antecedent, feats) ==
    IF i = 0 \/ i = true_antecedent THEN TopNone
    ELSE LET scores == score_instance(feat_set, theta, doc_embs, markables, i,
                                      feats)
             trues == all_trues_indices(markables, i, true_antecedent)
             falses == all_false_indices(markables, i, true_antecedent)
         IN  IF scores.err # "none" THEN TopRaise(scores.err)
             ELSE IF Cardinality(trues) = i THEN TopNone
             ELSE IF trues = {} THEN TopRaise("RuntimeError")
             ELSE Top(TorchMax(scores.val, trues), TorchMax(scores.val, falses))

\* get_true_antecedents(markables): the nearest preceding markable of the
\* same entity, or the mention itself
get_true_antecedents(markables) ==
    [i \in DOMAIN markables |->
        LET same == {a \in Range(i) : markables[a].entity = markables[i].entity}
        IN  IF same = {} THEN i
            ELSE CHOOSE a \in same : \A b \in same : b <= a]

\* the keys a feature function built from the list feats can emit
ExtractorKeys(feats) ==
    UNION { IF feats[k] = "minimal_features"
            THEN {MinimalNames[j] : j \in 1 .. Len(MinimalNames)}
            ELSE {MentionDistanceKey(d) : d \in 1 .. max_mention_distance_default}
                    \cup {TokenDistanceKey(d) :
                             d \in 1 .. max_token_distance_default}
            : k \in 1 .. Len(feats) }

\* the vocabulary feat_set holds every key the extractor can emit
VocabCovers(feat_set, feats) == ExtractorKeys(feats) \subseteq FeatNames(feat_set)

\* (feat_set, feats) pairs a caller may build a scorer and score with
ScorerConfigs ==
    { <<FullFeatSet, UnionList>>, <<FullFeatSet, <<"minimal_features">> >>,
      <<MinimalFeatSet, <<"minimal_features">> >>, <<MinimalFeatSet, UnionList>> }

\* a scorer is about to be constructed and then called on mention i of a
\* document with its markable embeddings
InitScorer ==
    /\ \E n \in 1 .. MaxScorerMarks, stride \in Strides, pat \in Patterns,
          theta \in Params, cfg \in ScorerConfigs :
          \E ents \in EntityLabels(n), i \in Range(n) :
             \E true_antecedent \in 0 .. i :
                LET markables == Document(n, stride, pat, ents)
                IN  scorer = [ pc |-> "new",
                               feat_set |-> EmptyList,
                               feat_set_arg |-> cfg[1],
                               feats |-> cfg[2],
                               theta |-> theta,
                               markables |-> markables,
                               doc_embs |-> DocEmbs(Words(markables), markables).val,
                               i |-> i,
                               true_antecedent |-> true_antecedent,
                               call |-> "none",
                               err |-> "none",
                               scores |-> EmptyList,
                               top |-> TopNone ]
    /\ sieve = SieveIdle
    /\ feat = FeatIdle
    /\ train = TrainIdle
    /\ eval = EvalIdle

\* SequentialScorer.__init__: stores feat_set and builds the index dicts and
\* the embedding tables from it; it never sees the feature extractor
ScorerConstruct ==
    /\ scorer.pc = "new"
    /\ scorer' = [scorer EXCEPT !.pc = "ready",
                                !.feat_set = scorer.feat_set_arg]
    /\ UNCHANGED <<sieve, feat, train, eval>>

CallScoreInstance ==
    /\ scorer.pc = "ready"
    /\ LET r == score_instance(scorer.feat_set, scorer.theta, scorer.doc_embs,
                               scorer.markables, scorer.i, scorer.feats)
       IN  scorer' = [scorer EXCEPT !.pc = "done",
                                    !.call = "score_instance",
                                    !.err = r.err,
                                    !.scores = IF r.err = "none" THEN r.val
                                               ELSE EmptyList]
    /\ UNCHANGED <<sieve, feat, train, eval>>

CallInstanceTopScores ==
    /\ scorer.pc = "ready"
    /\ LET r == instance_top_scores(scorer.feat_set, scorer.theta,
                                    scorer.doc_embs, scorer.markables, scorer.i,
                                    scorer.true_antecedent, scorer.feats)
       IN  scorer' = [scorer EXCEPT !.pc = "done",
                                    !.call = "instance_top_scores",
                                    !.err = r.err,
                                    !.top = r]
    /\ UNCHANGED <<sieve, feat, train, eval>>

NextScorer == ScorerConstruct \/ CallScoreInstance \/ CallInstanceTopScores

SpecScorer == InitScorer /\ [][NextScorer]_vars

\* the score forward gives candidate c of the mention scorer.i
CandScore(c) ==
    forward(scorer.feat_set, scorer.theta, scorer.doc_embs[scorer.i],
            scorer.doc_embs[c],
            get_pos_feats(scorer.feats, scorer.markables, c, scorer.i)).val

SameEntity(c) ==
    scorer.markables[c].entity
        = scorer.markables[scorer.true_antecedent].entity

(***************************************************************************)
(* C4.  When instance_top_scores returns a pair that is not the sentinel,  *)
(* its first component is the maximum score over the candidates in         *)
(* 0..i-1 of the gold entity of markables[true_antecedent] and its second  *)
(* the maximum over the candidates in 0..i-1 of another entity; the two    *)
(* sets partition 0..i-1 and the score of the self candidate i enters      *)
(* neither.  With a vocabulary that holds the extractor's keys it returns  *)
(* such a pair whenever i > 0, true_antecedent < i and some candidate in   *)
(* 0..i-1 has another entity.                                              *)
(***************************************************************************)
C4_TopScoresAreMaxima ==
    (scorer.pc = "done" /\ scorer.call = "instance_top_scores") =>
        LET i == scorer.i
            trues == {c \in Range(i) : SameEntity(c)}
            falses == {c \in Range(i) : ~SameEntity(c)}
        IN  /\ (scorer.top.err = "none" /\ ~scorer.top.none) =>
                  /\ i > 0 /\ scorer.true_antecedent < i /\ falses # {}
                  /\ trues \cup falses = Range(i) /\ trues \cap falses = {}
                  /\ \E c \in trues : CandScore(c) = scorer.top.trues_max
                  /\ \A c \in trues : CandScore(c) <= scorer.top.trues_max
                  /\ \E c \in falses : CandScore(c) = scorer.top.false_max
                  /\ \A c \in falses : CandScore(c) <= scorer.top.false_max
            /\ ( /\ i > 0 /\ scorer.true_antecedent < i /\ falses # {}
                 /\ VocabCovers(scorer.feat_set, scorer.feats) ) =>
                  (scorer.top.err = "none" /\ ~scorer.top.none)

\* a returned pair where the self candidate outscores every false candidate
\* and a true candidate is not the best-scoring true one
C4_Witness ==
    /\ scorer.pc = "done" /\ scorer.call = "instance_top_scores"
    /\ scorer.top.err = "none" /\ ~scorer.top.none
    /\ CandScore(scorer.i) > scorer.top.false_max
    /\ \E c \in Range(scorer.i) : SameEntity(c) /\ CandScore(c) < scorer.top.trues_max
    /\ scorer.top.trues_max # scorer.top.false_max

(***************************************************************************)
(* C10.  A feature name the extractor emits that is absent from feat_set   *)
(* is rejected when the scorer is constructed: no call of score_instance   *)
(* or instance_top_scores (through forward) is the first to discover it by *)
(* raising KeyError.                                                       *)
(***************************************************************************)
C10_FailFastAtConstruction ==
    scorer.pc = "done" => scorer.err # "KeyError"

(***************************************************************************)
(* neural_net.py: train.  One run over a dataset of documents; an          *)
(* exception ends the run in pc = "raised" with err naming it.             *)
(***************************************************************************)
\* the defaults of train
epochs_default == 2

margin_default == 1

\* the datasets of one or two documents
Datasets(maxMarks, stride, pat) ==
    LET docs == UNION {{Document(m, stride, pat, ents) : ents \in EntityLabels(m)} :
                          m \in 0 .. maxMarks}
    IN  {[k \in Range(1) |-> d] : d \in docs}
           \cup {[k \in Range(2) |-> IF k = 0 THEN dd[1] ELSE dd[2]] :
                    dd \in docs \X docs}

\* the hinge term without the clamp at zero
HingeUnclamped(margin, max_t, max_f) == margin - max_t + max_f

\* torch.max(torch.cat((_zero, marg))) for marg = margin - max_t + max_f
Hinge(margin, max_t, max_f) == Max(0, margin - max_t + max_f)

NoMention == [i |-> -1, true_antecedent |-> -1, top |-> TopNone, loss_before |-> 0]

InitTrain ==
    /\ \E pat \in Patterns, theta \in Params, word_limit \in {0, 4, 100} :
          \E ds \in Datasets(MaxTrainMarks, 2, pat) :
             train = [ pc |-> "epoch",
                       markable_set |-> ds,
                       words_set |-> [k \in DOMAIN ds |-> Words(ds[k])],
                       feat_set |-> FullFeatSet,
                       feats |-> UnionList,
                       theta |-> theta,
                       word_limit |-> word_limit,
                       epochs |-> epochs_default,
                       margin |-> margin_default,
                       ep |-> 0,
                       d |-> 0,
                       words |-> EmptyList,
                       marks |-> EmptyList,
                       att_embs |-> EmptyList,
                       true_ants |-> EmptyList,
                       i |-> 0,
                       loss |-> 0,
                       has_graph |-> FALSE,
                       grads |-> FALSE,
                       tot_loss |-> 0,
                       instances |-> 0,
                       steps |-> 0,
                       last |-> NoMention,
                       err |-> "none" ]
    /\ sieve = SieveIdle
    /\ feat = FeatIdle
    /\ scorer = ScorerIdle
    /\ eval = EvalIdle

\* words[:word_limit]
Truncate(words, word_limit) ==
    [t \in Range(Min(PyLen(words), word_limit)) |-> words[t]]

\* [m for m in marks if m.end_token < word_limit], in the order of marks
FilterMarks(marks, word_limit) ==
    LET kept == SelectSeq([j \in 1 .. PyLen(marks) |-> marks[j - 1]],
                          LAMBDA m : m.end_token < word_limit)
    IN  [k \in Range(Len(kept)) |-> kept[k + 1]]

\* for ep in range(epochs): tot_loss = 0.0; instances = 0
TrainEpoch ==
    /\ train.pc = "epoch"
    /\ train.ep < train.epochs
    /\ train' = [train EXCEPT !.pc = "doc", !.d = 0, !.tot_loss = 0,
                              !.instances = 0]
    /\ UNCHANGED <<sieve, feat, scorer, eval>>

\* the next (words, marks) of the zip: truncate and filter, zero_grad(),
\* clear_hidden_state(), loss = 0
TrainZeroGrad ==
    /\ train.pc = "doc"
    /\ train.d < PyLen(train.markable_set)
    /\ train' = [train EXCEPT
                    !.pc = "embed",
                    !.words = Truncate(train.words_set[train.d], train.word_limit),
                    !.marks = FilterMarks(train.markable_set[train.d],
                                          train.word_limit),
                    !.grads = FALSE,
                    !.loss = 0,
                    !.has_graph = FALSE,
                    !.last = NoMention]
    /\ UNCHANGED <<sieve, feat, scorer, eval>>

\* base_embs, att_embs and true_ants of the document
TrainEmbed ==
    /\ train.pc = "embed"
    /\ LET att_embs == DocEmbs(train.words, train.marks)
       IN  IF att_embs.err # "none"
           THEN train' = [train EXCEPT !.pc = "raised", !.err = att_embs.err]
           ELSE train' = [train EXCEPT
                             !.pc = "mentions",
                             !.att_embs = att_embs.val,
                             !.true_ants = get_true_antecedents(train.marks),
                             !.i = 0]
    /\ UNCHANGED <<sieve, feat, scorer, eval>>

\* one iteration of `for i in range(len(marks))`
TrainMention ==
    /\ train.pc = "mentions"
    /\ train.i < PyLen(train.marks)
    /\ LET top == instance_top_scores(train.feat_set, train.theta, train.att_embs,
                                      train.marks, train.i,
                                      train.true_ants[train.i], train.feats)
           seen == [i |-> train.i, true_antecedent |-> train.true_ants[train.i],
                    top |-> top, loss_before |-> train.loss]
       IN  IF top.err # "none"
           THEN train' = [train EXCEPT !.pc = "raised", !.err = top.err,
                                       !.last = seen]
           ELSE IF top.none
           THEN train' = [train EXCEPT !.i = train.i + 1, !.last = seen]
           ELSE train' = [train EXCEPT
                             !.i = train.i + 1,
                             !.last = seen,
                             !.loss = train.loss + Hinge(train.margin,
                                                        top.trues_max,
                                                        top.false_max),
                             !.has_graph = TRUE]
    /\ UNCHANGED <<sieve, feat, scorer, eval>>

\* instances += len(marks); sc_loss; tot_loss += sc_loss;
\* doc_losses.append(f'{sc_loss / len(marks):.5f}')
TrainDocLoss ==
    /\ train.pc = "mentions"
    /\ train.i >= PyLen(train.marks)
    /\ IF PyLen(train.marks) = 0
       THEN train' = [train EXCEPT !.pc = "raised", !.err = "ZeroDivisionError",
                                   !.tot_loss = train.tot_loss + train.loss]
       ELSE train' = [train EXCEPT !.pc = "backward",
                                   !.instances = train.instances
                                                    + PyLen(train.marks),
                                   !.tot_loss = train.tot_loss + train.loss]
    /\ UNCHANGED <<sieve, feat, scorer, eval>>

\* loss.backward(): a loss no hinge term was added to has no graph to
\* differentiate
TrainBackward ==
    /\ train.pc = "backward"
    /\ IF train.has_graph
       THEN train' = [train EXCEPT !.pc = "step", !.grads = TRUE]
       ELSE train' = [train EXCEPT !.pc = "raised", !.err = "RuntimeError"]
    /\ UNCHANGED <<sieve, feat, scorer, eval>>

\* optimizer.step(): the parameters move to some setting
TrainOptimizerStep ==
    /\ train.pc = "step"
    /\ \E theta \in Params :
          train' = [train EXCEPT !.pc = "doc", !.theta = theta,
                                 !.d = train.d + 1,
                                 !.steps = train.steps + 1]
    /\ UNCHANGED <<sieve, feat, scorer, eval>>

\* the prints that end an epoch: tot_loss / instances
TrainEndEpoch ==
    /\ train.pc = "doc"
    /\ train.d >= PyLen(train.markable_set)
    /\ IF train.instances = 0
       THEN train' = [train EXCEPT !.pc = "raised", !.err = "ZeroDivisionError"]
       ELSE train' = [train EXCEPT !.pc = "epoch", !.ep = train.ep + 1]
    /\ UNCHANGED <<sieve, feat, scorer, eval>>

\* the loop over the epochs is exhausted
TrainReturn ==
    /\ train.pc = "epoch"
    /\ train.ep >= train.epochs
    /\ train' = [train EXCEPT !.pc = "done"]
    /\ UNCHANGED <<sieve, feat, scorer, eval>>

NextTrain ==
    \/ TrainEpoch \/ TrainZeroGrad \/ TrainEmbed \/ TrainMention
    \/ TrainDocLoss \/ TrainBackward \/ TrainOptimizerStep
    \/ TrainEndEpoch \/ TrainReturn

SpecTrain == InitTrain /\ [][NextTrain]_vars

\* every candidate before the last processed mention has the gold entity of
\* its true antecedent
LastAllTrue ==
    \A c \in Range(train.last.i) :
        train.marks[c].entity = train.marks[train.last.true_antecedent].entity

(***************************************************************************)
(* C3.  For a mention with i = 0, with i = true_antecedent, or whose       *)
(* candidates 0..i-1 all have the gold entity of markables[true_antecedent]*)
(* instance_top_scores returns the sentinel (None, None) and raises        *)
(* nothing, and the training loop adds no term to the document's loss.     *)
(***************************************************************************)
C3_SentinelAddsNoLoss ==
    ( /\ train.pc # "idle" /\ train.last.i >= 0
      /\ ( \/ train.last.i = 0
           \/ train.last.i = train.last.true_antecedent
           \/ LastAllTrue ) ) =>
            /\ train.last.top.err = "none"
            /\ train.last.top.none
            /\ train.loss = train.last.loss_before

\* a later mention whose earlier candidates all share its entity
C3_Witness ==
    /\ train.pc = "mentions"
    /\ train.last.i > 0
    /\ train.last.true_antecedent < train.last.i
    /\ LastAllTrue
    /\ train.last.top.none

(***************************************************************************)
(* C5.  The loss accumulated for a document and the total of an epoch are  *)
(* never negative: the document's loss starts at 0 and each eligible       *)
(* mention adds max(0, margin - best_true + best_false).                   *)
(***************************************************************************)
C5_LossNonNegative ==
    train.pc # "idle" =>
        /\ train.loss >= 0
        /\ train.tot_loss >= 0
        /\ (train.last.i >= 0 /\ ~train.last.top.none /\ train.last.top.err = "none")
              => train.loss =
                    train.last.loss_before
                       + Max(0, train.margin - train.last.top.trues_max
                                   + train.last.top.false_max)

\* an eligible mention whose margin term is negative before the clamp, in an
\* epoch that has already accumulated a positive loss
C5_Witness ==
    /\ train.pc = "mentions"
    /\ train.last.i >= 0 /\ ~train.last.top.none /\ train.last.top.err = "none"
    /\ train.margin - train.last.top.trues_max + train.last.top.false_max < 0
    /\ train.loss = 0
    /\ train.tot_loss > 0

(***************************************************************************)
(* neural_net.py: evaluate and make_resolver.  evaluate fills emb_dict     *)
(* document by document, builds the resolver and hands it to               *)
(* eval_on_dataset, which calls it on every document of the dataset.       *)
(***************************************************************************)
\* utils.argmax(scores): the first index of the largest score
argmax(scores) ==
    CHOOSE a \in DOMAIN scores :
        /\ \A c \in DOMAIN scores : scores[c] <= scores[a]
        /\ \A c \in DOMAIN scores : scores[c] = scores[a] => a <= c

\* emb_dict[key] = value
DictPut(dict, key, value) ==
    [k \in DOMAIN dict \cup {key} |-> IF k = key THEN value ELSE dict[k]]

\* the gold entities of an evaluation document whose first markable has
\* the entity first
EvalEnts(n, first) == [k \in Range(n) |-> (first + k) % 2]

EvalDocs(maxMarks) ==
    UNION {{Document(n, 2, pat, EvalEnts(n, first)) :
               pat \in Patterns, first \in Entities} : n \in 0 .. maxMarks}

\* the document with the gold entities of its markables shifted by shift
Relabel(markables, shift) ==
    [k \in DOMAIN markables |->
        [markables[k] EXCEPT !.entity = (markables[k].entity + shift) % 2]]

EvalStart(ds, twin, runs, theta) ==
    [ pc |-> "embed",
      run |-> 1,
      runs |-> runs,
      markable_set |-> ds,
      words_set |-> [k \in DOMAIN ds |-> Words(ds[k])],
      twin_set |-> twin,
      feat_set |-> FullFeatSet,
      feats |-> UnionList,
      theta |-> theta,
      d |-> 0,
      emb_dict |-> EmptyList,
      i |-> 0,
      scores |-> EmptyList,
      cur |-> EmptyList,
      out |-> EmptyList,
      err |-> "none",
      first |-> [out |-> EmptyList, err |-> "none"] ]

\* evaluate is about to run on a dataset of one or two documents
InitEval ==
    /\ \E theta \in Params, docs \in Range(2) :
          \E d0 \in EvalDocs(MaxEvalMarks), d1 \in EvalDocs(MaxEvalMarks) :
             LET ds == [k \in Range(docs + 1) |-> IF k = 0 THEN d0 ELSE d1]
             IN  eval = EvalStart(ds, ds, 1, theta)
    /\ sieve = SieveIdle
    /\ feat = FeatIdle
    /\ scorer = ScorerIdle
    /\ train = TrainIdle

\* evaluate is about to run twice, on two datasets that differ in nothing
\* but the gold entities of their markables
InitTwin ==
    /\ \E theta \in Params, docs \in Range(2) :
          \E d0 \in EvalDocs(MaxEvalMarks), d1 \in EvalDocs(MaxEvalMarks),
             s0 \in Entities, s1 \in Entities :
             LET ds == [k \in Range(docs + 1) |-> IF k = 0 THEN d0 ELSE d1]
                 twin == [k \in Range(docs + 1) |->
                             IF k = 0 THEN Relabel(d0, s0) ELSE Relabel(d1, s1)]
             IN  eval = EvalStart(ds, twin, 2, theta)
    /\ sieve = SieveIdle
    /\ feat = FeatIdle
    /\ scorer = ScorerIdle
    /\ train = TrainIdle

\* one iteration of the loop of evaluate: the embeddings of the document
\* are stored under the entity of its first markable
EvalEmbedDoc ==
    /\ eval.pc = "embed"
    /\ eval.d < PyLen(eval.markable_set)
    /\ LET marks == eval.markable_set[eval.d]
           att_embs == DocEmbs(eval.words_set[eval.d], marks)
       IN  IF att_embs.err # "none"
           THEN eval' = [eval EXCEPT !.pc = "raised", !.err = att_embs.err]
           ELSE IF PyLen(marks) = 0
           THEN eval' = [eval EXCEPT !.pc = "raised", !.err = "IndexError"]
           ELSE eval' = [eval EXCEPT
                            !.emb_dict = DictPut(eval.emb_dict, marks[0].entity,
                                                 att_embs.val),
                            !.d = eval.d + 1]
    /\ UNCHANGED <<sieve, feat, scorer, train>>

\* resolver = make_resolver(feats, emb_dict, scoring_model), and
\* eval_on_dataset starts on the first document
EvalMakeResolver ==
    /\ eval.pc = "embed"
    /\ eval.d >= PyLen(eval.markable_set)
    /\ eval' = [eval EXCEPT !.pc = "resolve", !.d = 0, !.i = 0,
                            !.cur = EmptyList, !.scores = EmptyList]
    /\ UNCHANGED <<sieve, feat, scorer, train>>

\* the resolver's list comprehension at mention i of the document:
\* utils.argmax(score_instance(emb_dict[markables[0].entity], markables, i, feats))
ResolveMention ==
    /\ eval.pc = "resolve"
    /\ eval.d < PyLen(eval.markable_set)
    /\ eval.i < PyLen(eval.markable_set[eval.d])
    /\ LET markables == eval.markable_set[eval.d]
           key == markables[0].entity
           r == IF key \in DOMAIN eval.emb_dict
                THEN score_instance(eval.feat_set, eval.theta,
                                    eval.emb_dict[key], markables, eval.i,
                                    eval.feats)
                ELSE Raise("KeyError")
       IN  IF r.err # "none"
           THEN eval' = [eval EXCEPT !.pc = "raised", !.err = r.err]
           ELSE eval' = [eval EXCEPT
                            !.scores = r.val,
                            !.cur = [k \in Range(eval.i + 1) |->
                                        IF k = eval.i THEN argmax(r.val)
                                        ELSE eval.cur[k]],
                            !.i = eval.i + 1]
    /\ UNCHANGED <<sieve, feat, scorer, train>>

\* the resolver returns the list for the document; eval_on_dataset goes on
\* to the next document
ResolveReturn ==
    /\ eval.pc = "resolve"
    /\ eval.d < PyLen(eval.markable_set)
    /\ eval.i >= PyLen(eval.markable_set[eval.d])
    /\ eval' = [eval EXCEPT
                   !.out = [k \in Range(eval.d + 1) |->
                               IF k = eval.d THEN eval.cur ELSE eval.out[k]],
                   !.d = eval.d + 1,
                   !.i = 0,
                   !.cur = EmptyList,
                   !.scores = EmptyList]
    /\ UNCHANGED <<sieve, feat, scorer, train>>

\* return resolver
EvalReturn ==
    /\ eval.pc = "resolve"
    /\ eval.d >= PyLen(eval.markable_set)
    /\ eval' = [eval EXCEPT !.pc = "done"]
    /\ UNCHANGED <<sieve, feat, scorer, train>>

\* the first run has ended: evaluate runs again, from the same parameters,
\* on the dataset with the other gold entities
EvalSecondRun ==
    /\ eval.pc \in {"done", "raised"}
    /\ eval.run < eval.runs
    /\ eval' = [EvalStart(eval.twin_set, eval.twin_set, eval.runs, eval.theta)
                   EXCEPT !.run = 2,
                          !.first = [out |-> eval.out, err |-> eval.err]]
    /\ UNCHANGED <<sieve, feat, scorer, train>>

NextEval ==
    \/ EvalEmbedDoc \/ EvalMakeResolver \/ ResolveMention \/ ResolveReturn
    \/ EvalReturn

SpecEval == InitEval /\ [][NextEval]_vars

NextTwin == NextEval \/ EvalSecondRun

SpecTwin == InitTwin /\ [][NextTwin]_vars

\* the score forward gives candidate c of mention j of a document, from the
\* embeddings the resolver looks up for that document
ResolverScore(markables, j, c) ==
    LET doc_embs == eval.emb_dict[markables[0].entity]
    IN  forward(eval.feat_set, eval.theta, doc_embs[j], doc_embs[c],
                get_pos_feats(eval.feats, markables, c, j)).val

\* the first upto entries of an assignment: each a candidate in 0..j of
\* maximal score
ArgmaxAssignment(markables, antecedents, upto) ==
    \A j \in Range(upto) :
        /\ antecedents[j] \in 0 .. j
        /\ \A c \in 0 .. j :
              ResolverScore(markables, j, c)
                 <= ResolverScore(markables, j, antecedents[j])

(***************************************************************************)
(* C2.  Every list the learned resolver returns for a document of n        *)
(* markables has n entries; entry i is a candidate a in 0..i whose score   *)
(* is maximal among the candidates 0..i of mention i, and score_instance   *)
(* gives mention i exactly i + 1 scores, so a <= i.  The same holds of     *)
(* the entries computed so far while the list is being built.              *)
(***************************************************************************)
C2_ResolverArgmax ==
    eval.pc \in {"resolve", "done", "raised"} =>
        /\ \A k \in DOMAIN eval.out :
              /\ DOMAIN eval.out[k] = DOMAIN eval.markable_set[k]
              /\ ArgmaxAssignment(eval.markable_set[k], eval.out[k],
                                  PyLen(eval.markable_set[k]))
        /\ (eval.pc = "resolve" /\ eval.d < PyLen(eval.markable_set)) =>
              /\ DOMAIN eval.cur = Range(eval.i)
              /\ ArgmaxAssignment(eval.markable_set[eval.d], eval.cur, eval.i)
              /\ eval.i > 0 => DOMAIN eval.scores = 0 .. (eval.i - 1)

\* a finished evaluation where some mention links to a candidate that is
\* neither itself nor the first markable, and another starts a new entity
C2_Witness ==
    /\ eval.pc = "done"
    /\ \E k \in DOMAIN eval.out :
          /\ \E j \in DOMAIN eval.out[k] : 0 < eval.out[k][j] /\ eval.out[k][j] < j
          /\ \E j \in DOMAIN eval.out[k] : j > 0 /\ eval.out[k][j] = j

(***************************************************************************)
(* C8.  The assignments the learned resolver built by evaluate produces    *)
(* do not depend on the gold entities: run on two datasets that differ in  *)
(* nothing but the entity values of their markables, evaluate ends the     *)
(* same way and the resolver returns the same assignment for every         *)
(* document.                                                               *)
(***************************************************************************)
C8_EntityIndependent ==
    (eval.pc \in {"done", "raised"} /\ eval.run = 2) =>
        /\ eval.first.err = eval.err
        /\ eval.first.out = eval.out

SpecDegenerate ==
    /\ (InitSieve \/ InitTrain \/ InitEval)
    /\ [][NextSieve \/ NextTrain \/ NextEval]_vars

(***************************************************************************)
(* C9.  A document with zero markables is a no-op: the sieve resolver and  *)
(* the learned resolver return the empty assignment for it, and neither    *)
(* train nor evaluate raises at such a document.                           *)
(***************************************************************************)
C9_EmptyDocumentNoOp ==
    /\ (sieve.pc = "done" /\ PyLen(sieve.markables) = 0)
          => sieve.antecedents = EmptyList
    /\ eval.pc # "idle" =>
          /\ \A k \in DOMAIN eval.out :
                PyLen(eval.markable_set[k]) = 0 => eval.out[k] = EmptyList
          /\ ~ ( /\ eval.pc = "raised"
                 /\ eval.d < PyLen(eval.markable_set)
                 /\ PyLen(eval.markable_set[eval.d]) = 0 )
    /\ train.pc # "idle" =>
          ~ ( /\ train.pc = "raised"
              /\ train.d < PyLen(train.markable_set)
              /\ PyLen(train.markable_set[train.d]) = 0 )

(***************************************************************************)
(* neural_net.py: SequentialScorer.forward called directly with a list of  *)
(* positive features of the vocabulary.                                    *)
(***************************************************************************)
MaxPosFeats == 3

\* the lists of distinct vocabulary features of at most maxLen entries, in
\* every order (the keys of a feature dict are distinct)
PosFeatLists(feat_set, maxLen) ==
    UNION { { pf \in [1 .. l -> FeatNames(feat_set)] :
                \A a, b \in 1 .. l : a # b => pf[a] # pf[b] } :
            l \in 0 .. maxLen }

MarkEmbs == {0, 1}

InitForward ==
    /\ \E theta \in Params, emb_i \in MarkEmbs, emb_a \in MarkEmbs :
          \E pos_feats \in PosFeatLists(MinimalFeatSet, MaxPosFeats) :
             scorer = [ pc |-> "new",
                        feat_set |-> EmptyList,
                        feat_set_arg |-> MinimalFeatSet,
                        theta |-> theta,
                        emb_i |-> emb_i,
                        emb_a |-> emb_a,
                        pos_feats |-> pos_feats,
                        call |-> "none",
                        err |-> "none",
                        feature_emb |-> EmptyList,
                        score |-> 0 ]
    /\ sieve = SieveIdle
    /\ feat = FeatIdle
    /\ train = TrainIdle
    /\ eval = EvalIdle

\* forward(emb_i, emb_a, pos_feats): builds the feature-embedding block and
\* returns the score net gives the concatenated input
CallForward ==
    /\ scorer.pc = "ready"
    /\ LET block == FeatureEmb(scorer.feat_set, scorer.pos_feats)
           r == forward(scorer.feat_set, scorer.theta, scorer.emb_i,
                        scorer.emb_a, scorer.pos_feats)
       IN  scorer' = [scorer EXCEPT !.pc = "done",
                                    !.call = "forward",
                                    !.err = r.err,
                                    !.feature_emb =
                                        IF block.err = "none" THEN block.val
                                        ELSE EmptyList,
                                    !.score = IF r.err = "none" THEN r.val
                                              ELSE 0]
    /\ UNCHANGED <<sieve, feat, train, eval>>

NextForward == ScorerConstruct \/ CallForward

SpecForward == InitForward /\ [][NextForward]_vars

(***************************************************************************)
(* C11.  After forward has built the feature-embedding block from a list   *)
(* of positive features of the vocabulary, the slot of every vocabulary    *)
(* feature f holds the on embedding of f itself when f is in the list and  *)
(* the off embedding of f itself otherwise, never an embedding of another  *)
(* feature.                                                                *)
(***************************************************************************)
C11_BlockHoldsOwnEmbeddings ==
    (scorer.pc = "done" /\ scorer.call = "forward") =>
        /\ scorer.err = "none"
        /\ DOMAIN scorer.feature_emb = DOMAIN scorer.feat_set
        /\ \A k \in DOMAIN scorer.feat_set :
              scorer.feature_emb[k] =
                 IF \E j \in DOMAIN scorer.pos_feats :
                       scorer.pos_feats[j] = scorer.feat_set[k]
                 THEN <<"on", k>>
                 ELSE <<"off", k>>

\* the order of the steps of train on one document, read off the position
\* in the loop: the steps of all earlier documents are complete before the
\* document's forward pass, its gradients are zeroed before the forward
\* pass and computed by backward before the optimizer step
TrainStepOrder ==
    LET docs == PyLen(train.markable_set)
    IN  /\ train.pc \in {"embed", "mentions", "backward", "step"} =>
              train.steps = train.ep * docs + train.d
        /\ train.pc \in {"embed", "mentions", "backward"} => ~train.grads
        /\ train.pc = "step" => train.grads

(***************************************************************************)
(* C12.  In train every document of every epoch goes through zeroing the   *)
(* gradients, computing the embeddings, accumulating the hinge terms of    *)
(* its mentions and then exactly one backward pass and one optimizer step, *)
(* in this order; the parameters change only in that step, and a run       *)
(* makes exactly epochs x documents gradient steps.                        *)
(***************************************************************************)
C12_OneStepPerDocument ==
    /\ [](train.pc # "idle" =>
            /\ TrainStepOrder
            /\ train.pc \in {"done", "raised"} =>
                  train.steps = train.epochs * PyLen(train.markable_set))
    /\ [][train'.theta # train.theta =>
             (train.pc = "step" /\ train'.steps = train.steps + 1)]_vars

====
